---- MODULE Spec2Model ----
(***************************************************************************)
(* Model of the stock forecaster: the forecasting core                     *)
(* (src/stockforecaster.py) and the asynchronous handler that drives it    *)
(* (src/lambda_function.py).                                               *)
(*                                                                         *)
(* Numbers.  Prices are integers in tenths of a cent.  A value scaled by   *)
(* the min-max transform is kept as its numerator (price - min); the       *)
(* denominator (max - min) is the scaler's range.  A training loss (MSE)   *)
(* is a perfect square so that its RMSE is an integer; a score is the      *)
(* exact rational num/den, with den = 0 standing for +infinity.            *)
(* Model parameters are opaque: they are identified by the invocation     *)
(* that trained them and the number of epochs they were trained for.       *)
(***************************************************************************)
EXTENDS Integers, Sequences, FiniteSets, TLC

\* ---------------------------------------------------------------- constants
DAYS_AHEAD == 20
WINDOW_SIZE == 20
EPOCHS == 15
MIN_HISTORY == 125
\* training fraction 0.80 = TRAIN_NUM / TRAIN_DEN
TRAIN_NUM == 4
TRAIN_DEN == 5
\* ALPHA = 0.25 = ALPHA_NUM / ALPHA_DEN
ALPHA_NUM == 1
ALPHA_DEN == 4

\* ------------------------------------------------------------------- bounds
\* number of invocations of the handler that are modelled
MaxRuns == 2
\* longest price series the data source returns
MaxLen == 126
\* longest series, largest window size, longest loss history and largest
\* shape entry given to the pure functions when they are checked on their own
MaxUnitLen == 5
MaxUnitWindow == 3
MaxUnitEpochs == 3
MaxUnitShape == 3
\* longest series given to the split when it is checked on its own
MaxSplitLen == 11

\* ------------------------------------------------------------------ helpers
Max(a, b) == IF a >= b THEN a ELSE b

Min(a, b) == IF a <= b THEN a ELSE b

\* Python slice s[lo:hi] on a 0-indexed sequence, for 0 <= lo
Slice(s, lo, hi) ==
    LET h == Min(hi, Len(s))
    IN  IF h <= lo THEN << >> ELSE [j \in 1..(h - lo) |-> s[lo + j]]

\* Python s[-k:], for k >= 1
LastK(s, k) == Slice(s, Max(0, Len(s) - k), Len(s))

SeqMin(s) == CHOOSE m \in {s[i] : i \in 1..Len(s)} : \A i \in 1..Len(s) : m <= s[i]

SeqMax(s) == CHOOSE m \in {s[i] : i \in 1..Len(s)} : \A i \in 1..Len(s) : m >= s[i]

\* ----------------------------------------------------------------- Windower
\* slidingWindow: range((len(input) - 1) - window_size) iterations; iteration
\* i (0-based) appends input[i : i + window_size] and input[i + window_size].
slidingWindowCount(input, window_size) == Max(0, (Len(input) - 1) - window_size)

\* the windows start one place late
slidingWindow_late(input, window_size) ==
    LET cnt == slidingWindowCount(input, window_size)
    IN  [WINDOW |-> [i \in 1..cnt |-> Slice(input, i, i + window_size)],
         TARGET |-> [i \in 1..cnt |-> input[i + window_size]]]

slidingWindow(input, window_size) ==
    LET cnt == slidingWindowCount(input, window_size)
    IN  [WINDOW |-> [i \in 1..cnt |-> Slice(input, i - 1, (i - 1) + window_size)],
         TARGET |-> [i \in 1..cnt |-> input[i + window_size]]]

\* ----------------------------------------------------- Splitter/Leak-Checker
\* dataLeakOccured works on shapes, of which only entry [0] is read
\* the negation is dropped
dataLeakOccured_plain(merge_shape, shape_1, shape_2) ==
    merge_shape[1] = (shape_1[1] + shape_2[1])

dataLeakOccured(merge_shape, shape_1, shape_2) ==
    ~(merge_shape[1] = (shape_1[1] + shape_2[1]))

\* int(DATA_LENGTH * 0.80): the float product truncates to floor(4n/5), the
\* double nearest to 0.8 being just above it
\* nine tenths of the series go to training
training_phase_ninety(DATA_LENGTH) == (DATA_LENGTH * 9) \div 10

\* int(DATA_LENGTH * 0.80)
training_phase(DATA_LENGTH) == (DATA_LENGTH * TRAIN_NUM) \div TRAIN_DEN

training_df(prices) == Slice(prices, 0, training_phase(Len(prices)))

val_df(prices) == Slice(prices, training_phase(Len(prices)), Len(prices))

\* ndarray.shape of an (n, 1) array
Shape(a) == <<Len(a), 1>>

\* ------------------------------------------------------------------- scaler
\* MinMaxScaler(feature_range=(0, 1)).fit: remembers the minimum and the range
\* the fit sees the training partition only
ScalerFit_training_only(closes) ==
    [data_min |-> SeqMin(Slice(closes, 0, (TRAIN_NUM * Len(closes)) \div TRAIN_DEN)),
     data_range |-> SeqMax(Slice(closes, 0, (TRAIN_NUM * Len(closes)) \div TRAIN_DEN))
                        - SeqMin(Slice(closes, 0, (TRAIN_NUM * Len(closes)) \div TRAIN_DEN))]

ScalerFit(closes) ==
    [data_min |-> SeqMin(closes), data_range |-> SeqMax(closes) - SeqMin(closes)]

\* transform: (x - min) / range, kept as the numerator x - min
ScalerTransform(sc, xs) == [i \in 1..Len(xs) |-> xs[i] - sc.data_min]

\* inverse_transform: x * range + min, on numerators x + min
ScalerInverse(sc, xs) == [i \in 1..Len(xs) |-> xs[i] + sc.data_min]

\* -------------------------------------------------------- checkpoint store
Digit == <<"0", "1", "2", "3", "4", "5", "6", "7", "8", "9">>

\* str(k) for 0 <= k <= 99
Str(k) == IF k < 10 THEN Digit[k + 1] ELSE Digit[(k \div 10) + 1] \o Digit[(k % 10) + 1]

\* int(s) for the strings Str produces
ParseInt(s) == CHOOSE k \in 0..99 : Str(k) = s

\* '{epoch:02d}' for 0 <= epoch <= 99
Format02d(epoch) == Digit[(epoch \div 10) + 1] \o Digit[(epoch % 10) + 1]

\* DIRECTORY + 'model_epoch_' + tag + '.keras'
CheckpointFile(tag) == "/tmp/saved_models/model_epoch_" \o tag \o ".keras"

\* the names PATH = DIRECTORY + 'model_epoch_*.keras' matches, among the
\* names that are ever written
PathMatches(name) == \E k \in 0..99 : name = CheckpointFile(Format02d(k))

\* glob.glob(PATH)
Glob(files) == {f.name : f \in {g \in files : PathMatches(g.name)}}

\* nothing is removed
PurgeCheckpoints_none(files) == files

\* for epoch in glob.glob(PATH): os.remove(epoch)
PurgeCheckpoints(files) == {f \in files : f.name \notin Glob(files)}

\* save_best_only=True: an epoch is written only when its validation loss is
\* below the best one so far
SaveCheckpoint_best_only(files, params, epoch, val_loss, best_so_far) ==
    LET name == CheckpointFile(Format02d(epoch))
    IN  IF best_so_far < 0 \/ val_loss < best_so_far
        THEN {f \in files : f.name # name} \cup {[name |-> name, params |-> params]}
        ELSE files

\* ModelCheckpoint(filepath, mode='min'): save_best_only is left False, so
\* the model is written at the end of every epoch under the epoch's name,
\* replacing a file of that name
SaveCheckpoint(files, params, epoch, val_loss, best_so_far) ==
    LET name == CheckpointFile(Format02d(epoch))
    IN  {f \in files : f.name # name} \cup {[name |-> name, params |-> params]}

\* load_model(path): the parameters stored under path, or no such file
NoModel == [run |-> 0, epoch |-> 0]

FileExists(files, name) == \E f \in files : f.name = name

LoadModel(files, name) == (CHOOSE f \in files : f.name = name).params

\* ----------------------------------------------------------- Epoch Selector
\* np.sqrt on a loss that is a perfect square
Sqrt(x) == CHOOSE r \in 0..x : r * r = x

\* score = 1 / (ALPHA * training_RMSE + (1 - ALPHA) * val_RMSE)
\* the additive form: the blended error itself, not its reciprocal
Score_additive(training_RMSE, val_RMSE) ==
    [num |-> ALPHA_NUM * training_RMSE + (ALPHA_DEN - ALPHA_NUM) * val_RMSE,
     den |-> ALPHA_DEN]

Score(training_RMSE, val_RMSE) ==
    [num |-> ALPHA_DEN,
     den |-> ALPHA_NUM * training_RMSE + (ALPHA_DEN - ALPHA_NUM) * val_RMSE]

\* a > b on scores; a zero denominator is +infinity
ScoreGT(a, b) == a.num * b.den > b.num * a.den

\* the rows appended to `scores` by the loop over range(len(epochs))
ScoreRows(count, training_loss_list, val_loss_list) ==
    [i \in 1..count |->
        [epoch |-> Str(i),
         training_RMSE |-> Sqrt(training_loss_list[i]),
         val_RMSE |-> Sqrt(val_loss_list[i]),
         score |-> Score(Sqrt(training_loss_list[i]), Sqrt(val_loss_list[i]))]]

\* Series.idxmax(): one pass over the rows, keeping the position of the
\* largest score seen so far; a later row replaces it only when strictly
\* larger.  The result is the row label, which is 0-based.
RECURSIVE ArgMaxFrom(_, _, _)
ArgMaxFrom(rows, i, best) ==
    IF i > Len(rows) THEN best
    ELSE ArgMaxFrom(rows, i + 1,
                    IF ScoreGT(rows[i].score, rows[best].score) THEN i ELSE best)

IdxMax(rows) == ArgMaxFrom(rows, 2, 1) - 1

\* the epoch number is used as it is
PadEpochNum_unpadded(num) == num

\* if int(optimal_epoch_num) < 10: optimal_epoch_num = '0' + optimal_epoch_num
PadEpochNum(num) == IF ParseInt(num) < 10 THEN "0" \o num ELSE num

\* scores_df.iloc[optimal_index, 0], zero-padded when below 10
OptimalEpochNum(rows) == PadEpochNum(rows[IdxMax(rows) + 1].epoch)

\* --------------------------------------------------------------- Forecaster
\* model.predict(window): the network is opaque; the stand-in depends on the
\* parameters and on both ends of the window
Predict(params, window) ==
    window[Len(window)] + params.epoch + (window[1] % 2)

\* model.predict on an array of windows
PredictAll(params, windows) == [i \in 1..Len(windows) |-> Predict(params, windows[i])]

\* the roll goes the other way
Roll_right(window) ==
    [j \in 1..Len(window) |-> IF j > 1 THEN window[j - 1] ELSE window[Len(window)]]

\* np.roll(current_window, -1, axis=2)
Roll(window) == [j \in 1..Len(window) |-> IF j < Len(window) THEN window[j + 1] ELSE window[1]]

\* current_window[0, 0, -1] = next_price
SetLast(window, v) == [window EXCEPT ![Len(window)] = v]

\* one iteration of the forecasting loop on the window
NextWindow(window, next_price) == SetLast(Roll(window), next_price)

\* ------------------------------------------------------------------ Metrics
Abs(x) == IF x < 0 THEN 0 - x ELSE x

\* f"${float(x):.2f}": a price in tenths of a cent rounded to whole cents
FormatPrice(x) == (x + 5) \div 10

\* f"{float((f - h) / h) * 100:.2f}%": the change in hundredths of a percent,
\* rounded; a zero h gives the non-finite value numpy produces
FormatChange(f, h) ==
    IF h = 0 THEN [finite |-> FALSE, value |-> 0]
    ELSE IF h > 0 THEN [finite |-> TRUE, value |-> ((20000 * (f - h)) + h) \div (2 * h)]
    ELSE [finite |-> TRUE, value |-> ((20000 * (h - f)) - h) \div (2 * (0 - h))]

\* the sum of |history[i] - predicted_history[i]| / history[i] over the first
\* k steps, in hundredths of a percent; every history[i] is positive
RECURSIVE SumAbsPct(_, _, _)
SumAbsPct(history, predicted_history, k) ==
    IF k = 0 THEN 0
    ELSE SumAbsPct(history, predicted_history, k - 1)
            + (10000 * Abs(history[k] - predicted_history[k])) \div history[k]

\* np.mean(np.abs((history - predicted_history) / history)) * 100: numpy
\* divides by a zero element with a warning and no exception, the quotient
\* is inf or nan and so is the mean; the mean of no elements is nan
Mape(history, predicted_history) ==
    IF history = << >> \/ \E i \in 1..Len(history) : history[i] = 0
    THEN [finite |-> FALSE, value |-> 0]
    ELSE [finite |-> TRUE,
          value |-> SumAbsPct([i \in 1..Len(history) |-> Abs(history[i])],
                              predicted_history, Len(history)) \div Len(history)]

\* the forecast is put in front of the historical fit
get_forecast_data_forecast_first(prediction_results) ==
    LET history == prediction_results.training_target \o prediction_results.val_target
        predicted_history ==
            prediction_results.training_prediction \o prediction_results.val_prediction
    IN  [history |-> history,
         predicted_history |-> predicted_history,
         model_forecast |-> prediction_results.forecast \o predicted_history,
         mape |-> Mape(history, predicted_history)]

\* get_forecast_data: the concatenations and the MAPE
get_forecast_data(prediction_results) ==
    LET history == prediction_results.training_target \o prediction_results.val_target
        predicted_history ==
            prediction_results.training_prediction \o prediction_results.val_prediction
    IN  [history |-> history,
         predicted_history |-> predicted_history,
         model_forecast |-> predicted_history \o prediction_results.forecast,
         mape |-> Mape(history, predicted_history)]

\* response_data["prediction"], ["model_performance"] and ["forecast_timeline"]
ResponseData(forecast_data) ==
    LET h == forecast_data.history
        m == forecast_data.model_forecast
    IN  [predicted_price_20d |-> FormatPrice(m[Len(m)]),
         current_price |-> FormatPrice(h[Len(h)]),
         predicted_change_20d |-> FormatChange(m[Len(m)], h[Len(h)]),
         mape |-> forecast_data.mape,
         historical_days |-> Len(h),
         forecast_days |-> 20,
         total_days |-> Len(m),
         sentiment |-> "absent"]

\* if sentiment_data: response_data['sentiment'] = sentiment_data
WithSentiment(response, data) ==
    IF data = "None" THEN response ELSE [response EXCEPT !.sentiment = data]

\* =================================================================== state
Invs == 1..MaxRuns

\* the request ids (uuid4 strings in the program): as many as invocations
Requests == 1..MaxRuns

VARIABLES
    table,                \* the status store: request id -> item
    files,                \* the files under DIRECTORY
    pc,                   \* where each invocation of the handler stands
    request_id,           \* event.get('request_id') of the invocation
    sentiment_data,       \* what the sentiment step left, and how it went
    events,               \* the async-invoke event of each request
    post,                 \* post_prediction: position, body, id, last response
    closes,               \* raw_df['close'] of the invocation
    scaler,               \* the fitted MinMaxScaler
    prices_df,            \* the scaled series
    model,                \* the parameters of the in-memory `model`
    fit_losses,           \* the losses the epochs of this fit will report
    training_loss_list,   \* history.history['loss'] so far
    val_loss_list,        \* history.history['val_loss'] so far
    training_target,
    val_target,
    leak,                 \* what dataLeakOccured returned
    epochs,               \* glob.glob(PATH) after the fit
    scores_df,
    optimal_epoch_num,
    optimal_model,
    training_prediction,
    val_prediction,
    last_window,
    current_window,
    forecast,
    predictor,            \* the parameters of the object whose predict ran
    response_data,
    env,                  \* what the data source and the training can produce
    unit                  \* a pure function applied on its own: inputs, outputs

storeVars == <<table, files>>

dataVars == <<closes, scaler, prices_df>>

fitVars == <<model, fit_losses, training_loss_list, val_loss_list,
             training_target, val_target, leak>>

selectVars == <<epochs, scores_df, optimal_epoch_num, optimal_model>>

forecastVars == <<training_prediction, val_prediction, last_window,
                  current_window, forecast, predictor>>

handlerVars == <<request_id, sentiment_data>>

localVars == <<handlerVars, dataVars, fitVars, selectVars, forecastVars, response_data>>

apiVars == <<events, post>>

vars == <<storeVars, pc, localVars, apiVars, env, unit>>

\* ------------------------------------------------------------------ inputs
\* the lengths of the series the data source returns: none, the 50 of the
\* short-history scenario, and the lengths around the minimum history
Lengths == {0, 50} \cup ((MIN_HISTORY - 1)..MaxLen)

\* a rising series, a falling one, and a rising one in which the data
\* source reports one close of 0
Kinds == {"up", "down", "gap"}

ZeroCloseAt == 30

\* the closes of a series of n observations, in tenths of a cent
Closes(kind, n) ==
    [i \in 1..n |-> IF kind = "down" THEN 90001 - 7 * i
                    ELSE IF kind = "gap" /\ i = ZeroCloseAt THEN 0
                    ELSE 10003 + 7 * i]

\* loss histories (MSE per epoch, perfect squares):
\*   vee(m): validation loss falls to 0 at epoch m and rises again
\*   flat:   every epoch has the same losses
\*   zero:   both losses are 0 at epochs 3 and 9 only
\*   cross:  the training loss rises while the validation loss falls at epoch 6
Vee(m) ==
    [train |-> [i \in 1..EPOCHS |-> 1],
     val |-> [i \in 1..EPOCHS |-> Min(Abs(i - m), 2) * Min(Abs(i - m), 2)]]

FlatLoss == [train |-> [i \in 1..EPOCHS |-> 4], val |-> [i \in 1..EPOCHS |-> 1]]

ZeroLoss ==
    [train |-> [i \in 1..EPOCHS |-> IF i \in {3, 9} THEN 0 ELSE 1],
     val |-> [i \in 1..EPOCHS |-> IF i \in {3, 9} THEN 0 ELSE 4]]

CrossLoss ==
    [train |-> [i \in 1..EPOCHS |-> IF i <= 5 THEN 1 ELSE 9],
     val |-> [i \in 1..EPOCHS |-> IF i <= 5 THEN 4 ELSE 1]]

LossProfiles == {Vee(1), Vee(8), Vee(EPOCHS), FlatLoss, ZeroLoss, CrossLoss}

\* how the sentiment step can go: not asked for (include_sentiment false),
\* scraping, cleaning or scoring raises, no headline is left, or headlines
\* are scored
SentimentOutcomes == {"skipped", "raises", "empty", "scored"}

NoLosses == [train |-> << >>, val |-> << >>]

NoScaler == [data_min |-> 0, data_range |-> 0]

NoResponse ==
    [predicted_price_20d |-> 0, current_price |-> 0,
     predicted_change_20d |-> [finite |-> TRUE, value |-> 0],
     mape |-> [finite |-> TRUE, value |-> 0],
     historical_days |-> 0, forecast_days |-> 0, total_days |-> 0,
     sentiment |-> "absent"]

\* no item under the key
NoItem == [status |-> "NONE", result |-> NoResponse]

NoSentiment == [outcome |-> "unset", data |-> "None"]

\* a body of POST /predict with the three fields given
FullBody ==
    [json |-> "object", ticker |-> "value", start_date |-> "value", end_date |-> "value"]

\* the bodies of POST /predict: no body at all (the event's body is null),
\* the full body, and the full body with one field absent, null or empty
Bodies ==
    {[json |-> "null", ticker |-> "absent", start_date |-> "absent", end_date |-> "absent"],
     FullBody}
    \cup {[FullBody EXCEPT !.ticker = v] : v \in {"absent", "null", "empty"}}
    \cup {[FullBody EXCEPT !.start_date = v] : v \in {"absent", "null", "empty"}}
    \cup {[FullBody EXCEPT !.end_date = v] : v \in {"absent", "null", "empty"}}

NoBody == [json |-> "none", ticker |-> "absent", start_date |-> "absent", end_date |-> "absent"]

PostIdle == [pc |-> "idle", body |-> NoBody, request_id |-> 0, code |-> 0]

UnitIdle ==
    [op |-> "none", series |-> << >>, w |-> 0, tl |-> << >>, vl |-> << >>,
     shape |-> <<0, 0, 0>>, WINDOW |-> << >>, TARGET |-> << >>,
     train |-> << >>, val |-> << >>, leak |-> FALSE, optimal |-> "",
     epoch |-> 0, written |-> {}, loaded |-> NoModel, applied |-> FALSE]

\* the locals of an invocation that has not started or has returned
LocalsInit ==
    /\ closes = [r \in Invs |-> << >>]
    /\ scaler = [r \in Invs |-> NoScaler]
    /\ prices_df = [r \in Invs |-> << >>]
    /\ model = [r \in Invs |-> NoModel]
    /\ fit_losses = [r \in Invs |-> NoLosses]
    /\ training_loss_list = [r \in Invs |-> << >>]
    /\ val_loss_list = [r \in Invs |-> << >>]
    /\ training_target = [r \in Invs |-> << >>]
    /\ val_target = [r \in Invs |-> << >>]
    /\ leak = [r \in Invs |-> FALSE]
    /\ epochs = [r \in Invs |-> {}]
    /\ scores_df = [r \in Invs |-> << >>]
    /\ optimal_epoch_num = [r \in Invs |-> ""]
    /\ optimal_model = [r \in Invs |-> NoModel]
    /\ training_prediction = [r \in Invs |-> << >>]
    /\ val_prediction = [r \in Invs |-> << >>]
    /\ last_window = [r \in Invs |-> << >>]
    /\ current_window = [r \in Invs |-> << >>]
    /\ forecast = [r \in Invs |-> << >>]
    /\ predictor = [r \in Invs |-> NoModel]
    /\ response_data = [r \in Invs |-> NoResponse]
    /\ request_id = [r \in Invs |-> 0]
    /\ sentiment_data = [r \in Invs |-> NoSentiment]

\* post_prediction has stored every request as PENDING and has issued its
\* asynchronous invocation; the execution environment starts with no files
HandlerInit ==
    /\ table = [q \in Requests |-> [status |-> "PENDING", result |-> NoResponse]]
    /\ events = [q \in Requests |-> "queued"]
    /\ post = PostIdle
    /\ files = {}
    /\ pc = [r \in Invs |-> "idle"]
    /\ LocalsInit

\* the data source holds rising and falling series of every length and the
\* news source yields headlines that are scored
Init ==
    /\ HandlerInit
    /\ env = [lengths |-> Lengths, kinds |-> {"up", "down"}, profiles |-> LossProfiles,
              sentiments |-> {"scored"}]
    /\ unit = UnitIdle

\* ------------------------------------------------------------ status store
\* table.update_item: DynamoDB rejects the request (ValidationException)
\* unless the placeholders of ExpressionAttributeNames are exactly the ones
\* the UpdateExpression uses; an accepted SET overwrites the attributes
UpdateItem(item, used, names, status, result) ==
    IF names = used
    THEN [ok |-> TRUE, item |-> [status |-> status, result |-> result]]
    ELSE [ok |-> FALSE, item |-> item]

\* the locals of invocation r are dropped when it returns; the id of its
\* request stays in its log
ResetLocals(r) ==
    /\ request_id' = request_id
    /\ sentiment_data' = [sentiment_data EXCEPT ![r] = NoSentiment]
    /\ closes' = [closes EXCEPT ![r] = << >>]
    /\ scaler' = [scaler EXCEPT ![r] = NoScaler]
    /\ prices_df' = [prices_df EXCEPT ![r] = << >>]
    /\ model' = [model EXCEPT ![r] = NoModel]
    /\ fit_losses' = [fit_losses EXCEPT ![r] = NoLosses]
    /\ training_loss_list' = [training_loss_list EXCEPT ![r] = << >>]
    /\ val_loss_list' = [val_loss_list EXCEPT ![r] = << >>]
    /\ training_target' = [training_target EXCEPT ![r] = << >>]
    /\ val_target' = [val_target EXCEPT ![r] = << >>]
    /\ leak' = [leak EXCEPT ![r] = FALSE]
    /\ epochs' = [epochs EXCEPT ![r] = {}]
    /\ scores_df' = [scores_df EXCEPT ![r] = << >>]
    /\ optimal_epoch_num' = [optimal_epoch_num EXCEPT ![r] = ""]
    /\ optimal_model' = [optimal_model EXCEPT ![r] = NoModel]
    /\ training_prediction' = [training_prediction EXCEPT ![r] = << >>]
    /\ val_prediction' = [val_prediction EXCEPT ![r] = << >>]
    /\ last_window' = [last_window EXCEPT ![r] = << >>]
    /\ current_window' = [current_window EXCEPT ![r] = << >>]
    /\ forecast' = [forecast EXCEPT ![r] = << >>]
    /\ predictor' = [predictor EXCEPT ![r] = NoModel]
    /\ response_data' = [response_data EXCEPT ![r] = NoResponse]

Running(r) == pc[r] \notin {"idle", "returned", "raised"}

\* invocations are delivered in the order of their requests
NextToStart(r) == pc[r] = "idle" /\ (IF r = 1 THEN TRUE ELSE pc[r - 1] # "idle")

\* process_prediction, steps 1 and 2, on the event of request q: the status
\* becomes PROCESSING, whatever it was
ProcessingUpdate(r, q) ==
    LET u == UpdateItem(table[q], {"#status"}, {"#status"}, "PROCESSING", table[q].result)
    IN  /\ request_id' = [request_id EXCEPT ![r] = q]
        /\ events' = [events EXCEPT ![q] = "delivered"]
        /\ table' = [table EXCEPT ![q] = u.item]
        /\ pc' = [pc EXCEPT ![r] = IF u.ok THEN "retrieve" ELSE "except"]
        /\ UNCHANGED <<files, sentiment_data, dataVars, fitVars, selectVars, forecastVars,
                       response_data, post, env, unit>>

\* the events are delivered for the first time in the order of their requests
FirstUndelivered(q) ==
    /\ events[q] = "queued"
    /\ \A p \in Requests : p < q => events[p] # "queued"

\* lambda_handler dispatches an async-invoke event to process_prediction; the
\* execution environment runs one invocation at a time
AsyncInvoke(r) ==
    /\ NextToStart(r)
    /\ \A q \in Invs : ~Running(q)
    /\ post.pc = "idle"
    /\ \E q \in Requests : FirstUndelivered(q) /\ ProcessingUpdate(r, q)

\* an event delivered while another invocation is still running in a
\* process that sees the same DIRECTORY
OverlappingInvoke(r) ==
    /\ NextToStart(r)
    /\ \E q \in Invs : Running(q)
    /\ \E q \in Requests : FirstUndelivered(q) /\ ProcessingUpdate(r, q)

\* the asynchronous invocation delivers an event at least once: an event
\* that was delivered before is delivered again (a retry after a function
\* error, or a duplicate)
Redeliver(r) ==
    /\ NextToStart(r)
    /\ \A q \in Invs : ~Running(q)
    /\ post.pc = "idle"
    /\ \E q \in Requests : events[q] = "delivered" /\ ProcessingUpdate(r, q)

\* retrieve_stock_data: the data source returns n closes, the scaler is fit
\* on all of them and they are transformed; no closes at all make the fit
\* raise
RetrieveStockData(r) ==
    /\ pc[r] = "retrieve"
    /\ \E n \in env.lengths, kind \in env.kinds :
        IF n = 0
        THEN /\ pc' = [pc EXCEPT ![r] = "except"]
             /\ UNCHANGED dataVars
        ELSE /\ closes' = [closes EXCEPT ![r] = Closes(kind, n)]
             /\ scaler' = [scaler EXCEPT ![r] = ScalerFit(Closes(kind, n))]
             /\ prices_df' = [prices_df EXCEPT ![r] =
                                ScalerTransform(ScalerFit(Closes(kind, n)), Closes(kind, n))]
             /\ pc' = [pc EXCEPT ![r] = "check"]
    /\ UNCHANGED <<storeVars, fitVars, selectVars, forecastVars, response_data,
                   handlerVars, apiVars, env, unit>>

\* the comparison is off by one
HistoryTooShort_lenient(prices) == Len(prices) < MIN_HISTORY - 1

\* if len(prices_df) < 125: raise ValueError('Insufficient history ...')
HistoryTooShort(prices) == Len(prices) < MIN_HISTORY

CheckHistory(r) ==
    /\ pc[r] = "check"
    /\ pc' = [pc EXCEPT ![r] = IF HistoryTooShort(prices_df[r]) THEN "except" ELSE "purge"]
    /\ UNCHANGED <<storeVars, localVars, apiVars, env, unit>>

\* perform_prediction, lines 178-182: makedirs and the purge of DIRECTORY
Purge(r) ==
    /\ pc[r] = "purge"
    /\ files' = PurgeCheckpoints(files)
    /\ pc' = [pc EXCEPT ![r] = "split"]
    /\ UNCHANGED <<table, localVars, apiVars, env, unit>>

\* np.reshape(window, (window.shape[0], 1, window.shape[1])): an empty set
\* of windows is an array of shape (0,), whose shape[1] raises IndexError
ReshapeRaises(windows) == windows = << >>

\* perform_prediction, lines 184-239: the split, the windows, the leak check
\* and the construction of the untrained model; the losses this fit will
\* report are fixed by the data and the seed
SplitAndBuild(r) ==
    /\ pc[r] = "split"
    /\ IF \/ ReshapeRaises(slidingWindow(training_df(prices_df[r]), WINDOW_SIZE).WINDOW)
          \/ ReshapeRaises(slidingWindow(val_df(prices_df[r]), WINDOW_SIZE).WINDOW)
       THEN /\ pc' = [pc EXCEPT ![r] = "except"]
            /\ UNCHANGED <<training_target, val_target, leak, model, fit_losses>>
       ELSE /\ training_target' = [training_target EXCEPT ![r] =
                    slidingWindow(training_df(prices_df[r]), WINDOW_SIZE).TARGET]
            /\ val_target' = [val_target EXCEPT ![r] =
                    slidingWindow(val_df(prices_df[r]), WINDOW_SIZE).TARGET]
            /\ leak' = [leak EXCEPT ![r] =
                    dataLeakOccured(Shape(prices_df[r]), Shape(training_df(prices_df[r])),
                                    Shape(val_df(prices_df[r])))]
            /\ model' = [model EXCEPT ![r] = [run |-> r, epoch |-> 0]]
            /\ \E p \in env.profiles : fit_losses' = [fit_losses EXCEPT ![r] = p]
            /\ pc' = [pc EXCEPT ![r] = "fit"]
    /\ UNCHANGED <<storeVars, dataVars, training_loss_list, val_loss_list,
                   selectVars, forecastVars, response_data, handlerVars, apiVars, env, unit>>

\* the smallest validation loss among the first k epochs (ModelCheckpoint's
\* `best`), or -1 before the first epoch
BestValLoss(losses) == IF losses = << >> THEN 0 - 1 ELSE SeqMin(losses)

\* model.fit, one epoch: the parameters are updated, the losses of the epoch
\* are recorded and the ModelCheckpoint callback runs at the end of the epoch
TrainEpoch(r) ==
    /\ pc[r] = "fit"
    /\ Len(training_loss_list[r]) < EPOCHS
    /\ LET epoch == Len(training_loss_list[r]) + 1
           trained == [run |-> r, epoch |-> epoch]
       IN  /\ model' = [model EXCEPT ![r] = trained]
           /\ training_loss_list' = [training_loss_list EXCEPT ![r] =
                    Append(@, fit_losses[r].train[epoch])]
           /\ val_loss_list' = [val_loss_list EXCEPT ![r] =
                    Append(@, fit_losses[r].val[epoch])]
           /\ files' = SaveCheckpoint(files, trained, epoch, fit_losses[r].val[epoch],
                                      BestValLoss(val_loss_list[r]))
           /\ pc' = [pc EXCEPT ![r] = IF epoch = EPOCHS THEN "select" ELSE "fit"]
    /\ UNCHANGED <<table, dataVars, fit_losses, training_target, val_target, leak,
                   selectVars, forecastVars, response_data, handlerVars, apiVars, env, unit>>

\* model.fit raises in the middle of training; the checkpoints written so
\* far stay in DIRECTORY
FitRaises(r) ==
    /\ pc[r] = "fit"
    /\ Len(training_loss_list[r]) < EPOCHS
    /\ pc' = [pc EXCEPT ![r] = "except"]
    /\ UNCHANGED <<storeVars, localVars, apiVars, env, unit>>

\* perform_prediction, lines 257-311: the checkpoints are enumerated, the
\* targets are brought back to prices, one row is scored per enumerated file
\* and the checkpoint of the best row is loaded.  Naming the columns of an
\* empty frame raises, and so does loading a file that is not there.
SelectEpoch(r) ==
    /\ pc[r] = "select"
    /\ LET found == Glob(files)
           rows == ScoreRows(Cardinality(found), training_loss_list[r], val_loss_list[r])
       IN  /\ epochs' = [epochs EXCEPT ![r] = found]
           /\ training_target' = [training_target EXCEPT ![r] = ScalerInverse(scaler[r], @)]
           /\ val_target' = [val_target EXCEPT ![r] = ScalerInverse(scaler[r], @)]
           /\ scores_df' = [scores_df EXCEPT ![r] = rows]
           /\ IF found = {}
              THEN /\ pc' = [pc EXCEPT ![r] = "except"]
                   /\ UNCHANGED <<optimal_epoch_num, optimal_model>>
              ELSE /\ optimal_epoch_num' = [optimal_epoch_num EXCEPT ![r] = OptimalEpochNum(rows)]
                   /\ IF FileExists(files, CheckpointFile(OptimalEpochNum(rows)))
                      THEN /\ optimal_model' = [optimal_model EXCEPT ![r] =
                                    LoadModel(files, CheckpointFile(OptimalEpochNum(rows)))]
                           /\ pc' = [pc EXCEPT ![r] = "predict"]
                      ELSE /\ pc' = [pc EXCEPT ![r] = "except"]
                           /\ UNCHANGED optimal_model
    /\ UNCHANGED <<storeVars, dataVars, model, fit_losses, training_loss_list,
                   val_loss_list, leak, forecastVars, response_data,
                   handlerVars, apiVars, env, unit>>

\* the object whose predict method lines 314, 320 and 344 call: `model`
PredictingModel(in_memory, loaded) == in_memory

\* perform_prediction, lines 313-338: the historical fit of the training and
\* validation windows, and the start of the forecasting loop
PredictHistory(r) ==
    /\ pc[r] = "predict"
    /\ LET m == PredictingModel(model[r], optimal_model[r])
       IN  /\ training_prediction' = [training_prediction EXCEPT ![r] =
                ScalerInverse(scaler[r],
                    PredictAll(m, slidingWindow(training_df(prices_df[r]), WINDOW_SIZE).WINDOW))]
           /\ val_prediction' = [val_prediction EXCEPT ![r] =
                ScalerInverse(scaler[r],
                    PredictAll(m, slidingWindow(val_df(prices_df[r]), WINDOW_SIZE).WINDOW))]
           /\ predictor' = [predictor EXCEPT ![r] = m]
    /\ last_window' = [last_window EXCEPT ![r] = LastK(prices_df[r], WINDOW_SIZE)]
    /\ current_window' = [current_window EXCEPT ![r] = LastK(prices_df[r], WINDOW_SIZE)]
    /\ forecast' = [forecast EXCEPT ![r] = << >>]
    /\ pc' = [pc EXCEPT ![r] = "forecast"]
    /\ UNCHANGED <<storeVars, dataVars, fitVars, selectVars, response_data,
                   handlerVars, apiVars, env, unit>>

\* perform_prediction, lines 342-354: one iteration of the forecasting loop
ForecastStep(r) ==
    /\ pc[r] = "forecast"
    /\ Len(forecast[r]) < DAYS_AHEAD
    /\ LET m == PredictingModel(model[r], optimal_model[r])
           next_price == Predict(m, current_window[r])
       IN  /\ forecast' = [forecast EXCEPT ![r] = Append(@, next_price)]
           /\ current_window' = [current_window EXCEPT ![r] = NextWindow(@, next_price)]
           /\ predictor' = [predictor EXCEPT ![r] = m]
    /\ UNCHANGED <<storeVars, pc, dataVars, fitVars, selectVars, training_prediction,
                   val_prediction, last_window, response_data, handlerVars, apiVars, env, unit>>

\* the exception of the sentiment step leaves process_prediction's try block
SentimentEscapes_uncaught(outcome) == outcome = "raises"

\* lines 154-175: the step has its own try/except Exception, which sets
\* sentiment_data = None; nothing the step raises leaves it
SentimentEscapes(outcome) == FALSE

\* sentiment_data after step 6
SentimentData(outcome) == IF outcome = "scored" THEN "scores" ELSE "None"

\* perform_prediction, lines 356-371, get_forecast_data and steps 6 and 7 of
\* process_prediction: the forecast is brought back to prices, the sentiment
\* step runs and the report is built
BuildReport(r) ==
    /\ pc[r] = "forecast"
    /\ Len(forecast[r]) = DAYS_AHEAD
    /\ forecast' = [forecast EXCEPT ![r] = ScalerInverse(scaler[r], @)]
    /\ \E outcome \in env.sentiments :
        /\ sentiment_data' = [sentiment_data EXCEPT ![r] =
                [outcome |-> outcome, data |-> SentimentData(outcome)]]
        /\ IF SentimentEscapes(outcome)
           THEN /\ pc' = [pc EXCEPT ![r] = "except"]
                /\ UNCHANGED response_data
           ELSE /\ response_data' = [response_data EXCEPT ![r] =
                     WithSentiment(
                        ResponseData(get_forecast_data(
                            [training_target |-> training_target[r],
                             val_target |-> val_target[r],
                             training_prediction |-> training_prediction[r],
                             val_prediction |-> val_prediction[r],
                             forecast |-> ScalerInverse(scaler[r], forecast[r])])),
                        SentimentData(outcome))]
                /\ pc' = [pc EXCEPT ![r] = "store"]
    /\ UNCHANGED <<storeVars, request_id, dataVars, fitVars, selectVars, training_prediction,
                   val_prediction, last_window, current_window, predictor, apiVars,
                   env, unit>>

\* process_prediction, step 8: the result is stored as COMPLETED
StoreCompleted(r) ==
    /\ pc[r] = "store"
    /\ LET q == request_id[r]
           u == UpdateItem(table[q], {"#status", "#result"}, {"#status", "#result"},
                           "COMPLETED", response_data[r])
       IN  /\ table' = [table EXCEPT ![q] = u.item]
           /\ IF u.ok
              THEN pc' = [pc EXCEPT ![r] = "returned"] /\ ResetLocals(r)
              ELSE pc' = [pc EXCEPT ![r] = "except"] /\ UNCHANGED localVars
    /\ UNCHANGED <<files, apiVars, env, unit>>

\* process_prediction, the except branch: the update names '#error' without
\* using it in the expression; when the store rejects it the exception leaves
\* the handler
HandleException(r) ==
    /\ pc[r] = "except"
    /\ LET q == request_id[r]
           u == UpdateItem(table[q], {"#status"}, {"#status", "#error"},
                           "FAILED", table[q].result)
       IN  /\ table' = [table EXCEPT ![q] = u.item]
           /\ pc' = [pc EXCEPT ![r] = IF u.ok THEN "returned" ELSE "raised"]
    /\ ResetLocals(r)
    /\ UNCHANGED <<files, apiVars, env, unit>>

\* ----------------------------------------------------------- specifications
Step(r) ==
    \/ RetrieveStockData(r)
    \/ CheckHistory(r)
    \/ Purge(r)
    \/ SplitAndBuild(r)
    \/ TrainEpoch(r)
    \/ FitRaises(r)
    \/ SelectEpoch(r)
    \/ PredictHistory(r)
    \/ ForecastStep(r)
    \/ BuildReport(r)
    \/ StoreCompleted(r)
    \/ HandleException(r)

\* one execution environment: the invocations follow one another
Next == \E r \in Invs : AsyncInvoke(r) \/ Step(r)

Spec == Init /\ [][Next]_vars

\* several processes that see the same DIRECTORY: an invocation may start
\* at any point of another one.  Of all the interleavings only those are
\* followed in which the invocation that started last runs to its end before
\* an earlier one resumes.
LatestRunning(r) == \A q \in Invs : q > r => ~Running(q)

NextOverlap ==
    \E r \in Invs : AsyncInvoke(r) \/ OverlappingInvoke(r) \/ (LatestRunning(r) /\ Step(r))

\* the overlapping invocations are followed on a data source that holds one
\* series too short and one long enough, and two loss histories
InitOverlap ==
    /\ HandlerInit
    /\ env = [lengths |-> {50, MIN_HISTORY}, kinds |-> {"up"},
              profiles |-> {Vee(8), FlatLoss}, sentiments |-> {"scored"}]
    /\ unit = UnitIdle

SpecOverlap == InitOverlap /\ [][NextOverlap]_vars

\* ------------------------------------------------------------ the HTTP API
\* bool(x) of a field of the body after body.get
Truthy(field) == field = "value"

\* uuid.uuid4(): an id no request has yet
FreshId(q) ==
    /\ table[q].status = "NONE"
    /\ events[q] = "none"
    /\ \A p \in Requests : p < q => (table[p].status # "NONE" \/ events[p] # "none")

\* post_prediction, steps 1 to 3: json.loads of no body raises, and so does
\* .upper() on a null ticker (both end in the except branch, 500); a field
\* that is missing or empty is answered with 400; otherwise an id is drawn.
\* The execution environment runs one invocation of lambda_handler at a time
PostPrediction ==
    /\ post.pc = "idle"
    /\ \A r \in Invs : ~Running(r)
    /\ \E body \in Bodies :
        IF body.json = "null" \/ body.ticker = "null"
        THEN post' = [pc |-> "idle", body |-> body, request_id |-> 0, code |-> 500]
        ELSE IF ~Truthy(body.ticker) \/ ~Truthy(body.start_date) \/ ~Truthy(body.end_date)
        THEN post' = [pc |-> "idle", body |-> body, request_id |-> 0, code |-> 400]
        ELSE \E q \in Requests :
                /\ FreshId(q)
                /\ post' = [pc |-> "put_item", body |-> body, request_id |-> q, code |-> 0]
    /\ UNCHANGED <<storeVars, pc, localVars, events, env, unit>>

\* step 4: table.put_item of the PENDING record
PostPutItem ==
    /\ post.pc = "put_item"
    /\ table' = [table EXCEPT ![post.request_id] =
                    [status |-> "PENDING", result |-> NoResponse]]
    /\ post' = [post EXCEPT !.pc = "invoke"]
    /\ UNCHANGED <<files, pc, localVars, events, env, unit>>

\* step 5: lambda_client.invoke with InvocationType 'Event'
PostInvoke ==
    /\ post.pc = "invoke"
    /\ events' = [events EXCEPT ![post.request_id] = "queued"]
    /\ post' = [post EXCEPT !.pc = "respond"]
    /\ UNCHANGED <<storeVars, pc, localVars, env, unit>>

\* step 6: 202 with the request id
PostRespond ==
    /\ post.pc = "respond"
    /\ post' = [post EXCEPT !.pc = "idle", !.code = 202]
    /\ UNCHANGED <<storeVars, pc, localVars, events, env, unit>>

\* put_item or invoke raises (the service refuses or cannot be reached): the
\* except branch answers 500
PostRaises ==
    /\ post.pc \in {"put_item", "invoke"}
    /\ post' = [post EXCEPT !.pc = "idle", !.code = 500]
    /\ UNCHANGED <<storeVars, pc, localVars, events, env, unit>>

\* get_status for the id q of the path: it reads the store and writes
\* nothing; 404 without an item, else 200 with the stored status
get_status(items, q) ==
    IF items[q].status = "NONE"
    THEN [request_id |-> q, code |-> 404, status |-> "NONE"]
    ELSE [request_id |-> q, code |-> 200, status |-> items[q].status]

\* the API in front of one execution environment: requests are posted and
\* their events are delivered at least once
NextApi ==
    \/ PostPrediction
    \/ PostPutItem
    \/ PostInvoke
    \/ PostRespond
    \/ PostRaises
    \/ \E r \in Invs : AsyncInvoke(r) \/ Redeliver(r) \/ Step(r)

\* no request has been posted; the data source holds one series too short,
\* one long enough and one with a close of 0, and the news source can fail
InitApi ==
    /\ table = [q \in Requests |-> NoItem]
    /\ events = [q \in Requests |-> "none"]
    /\ post = PostIdle
    /\ files = {}
    /\ pc = [r \in Invs |-> "idle"]
    /\ LocalsInit
    /\ env = [lengths |-> {50, MIN_HISTORY}, kinds |-> {"up", "gap"},
              profiles |-> {Vee(8)}, sentiments |-> SentimentOutcomes]
    /\ unit = UnitIdle

SpecApi == InitApi /\ [][NextApi]_vars

\* invocations that follow one another on one series long enough, with a
\* news source that can fail in every way
InitNews ==
    /\ HandlerInit
    /\ env = [lengths |-> {50, MIN_HISTORY}, kinds |-> {"up"}, profiles |-> {Vee(8)},
              sentiments |-> SentimentOutcomes]
    /\ unit = UnitIdle

SpecNews == InitNews /\ [][Next]_vars

\* ------------------------------------------- the pure functions on their own
SeqsUpTo(S, n) == UNION {[1..k -> S] : k \in 0..n}

UnitValues == {1, 2, 3}

UnitLosses == {0, 1, 4, 9}

InitUnit ==
    /\ HandlerInit
    /\ env = [lengths |-> {}, kinds |-> {}, profiles |-> {}, sentiments |-> {}]
    /\ \/ \E s \in SeqsUpTo(UnitValues, MaxUnitLen), w \in 0..MaxUnitWindow :
            unit = [UnitIdle EXCEPT !.op = "slidingWindow", !.series = s, !.w = w]
       \/ \E n \in 0..MaxSplitLen :
            unit = [UnitIdle EXCEPT !.op = "split", !.series = [i \in 1..n |-> i]]
       \/ \E a \in 0..MaxUnitShape, b \in 0..MaxUnitShape, c \in 0..MaxUnitShape :
            unit = [UnitIdle EXCEPT !.op = "dataLeakOccured", !.shape = <<a, b, c>>]
       \/ \E k \in 1..MaxUnitEpochs :
            \E tl \in [1..k -> UnitLosses], vl \in [1..k -> UnitLosses] :
                unit = [UnitIdle EXCEPT !.op = "select", !.tl = tl, !.vl = vl]
       \/ \E k \in 1..EPOCHS :
            unit = [UnitIdle EXCEPT !.op = "load_model", !.epoch = k]

ApplySlidingWindow ==
    /\ unit.op = "slidingWindow" /\ ~unit.applied
    /\ unit' = [unit EXCEPT !.WINDOW = slidingWindow(unit.series, unit.w).WINDOW,
                            !.TARGET = slidingWindow(unit.series, unit.w).TARGET,
                            !.applied = TRUE]
    /\ UNCHANGED <<storeVars, pc, localVars, apiVars, env>>

\* the split of perform_prediction and its leak check
ApplySplit ==
    /\ unit.op = "split" /\ ~unit.applied
    /\ unit' = [unit EXCEPT !.train = training_df(unit.series),
                            !.val = val_df(unit.series),
                            !.leak = dataLeakOccured(Shape(unit.series),
                                                     Shape(training_df(unit.series)),
                                                     Shape(val_df(unit.series))),
                            !.applied = TRUE]
    /\ UNCHANGED <<storeVars, pc, localVars, apiVars, env>>

ApplyDataLeakOccured ==
    /\ unit.op = "dataLeakOccured" /\ ~unit.applied
    /\ unit' = [unit EXCEPT !.leak = dataLeakOccured(<<unit.shape[1], 1>>,
                                                     <<unit.shape[2], 1>>,
                                                     <<unit.shape[3], 1>>),
                            !.applied = TRUE]
    /\ UNCHANGED <<storeVars, pc, localVars, apiVars, env>>

\* the scoring loop and the choice of the epoch, one file per epoch
ApplySelect ==
    /\ unit.op = "select" /\ ~unit.applied
    /\ unit' = [unit EXCEPT !.optimal =
                                OptimalEpochNum(ScoreRows(Len(unit.tl), unit.tl, unit.vl)),
                            !.applied = TRUE]
    /\ UNCHANGED <<storeVars, pc, localVars, apiVars, env>>

\* the directory after the ModelCheckpoint callback has run at the end of
\* each of the first k epochs of a fit
RECURSIVE CheckpointsAfter(_)
CheckpointsAfter(k) ==
    IF k = 0 THEN {}
    ELSE SaveCheckpoint(CheckpointsAfter(k - 1), [run |-> 1, epoch |-> k], k, 0, 0 - 1)

\* the selector has chosen row unit.epoch of the scores (its 'epoch' column
\* is str(i + 1)) and loads the checkpoint of that name after a full fit
ApplyLoadModel ==
    /\ unit.op = "load_model" /\ ~unit.applied
    /\ LET name == CheckpointFile(PadEpochNum(Str(unit.epoch)))
           written == CheckpointsAfter(EPOCHS)
       IN  unit' = [unit EXCEPT !.written = written,
                                !.optimal = PadEpochNum(Str(unit.epoch)),
                                !.loaded = IF FileExists(written, name)
                                           THEN LoadModel(written, name) ELSE NoModel,
                                !.applied = TRUE]
    /\ UNCHANGED <<storeVars, pc, localVars, apiVars, env>>

NextUnit ==
    \/ ApplySlidingWindow
    \/ ApplySplit
    \/ ApplyDataLeakOccured
    \/ ApplySelect
    \/ ApplyLoadModel

SpecUnit == InitUnit /\ [][NextUnit]_vars

\* ================================================================== claims

C2_SplitLossless ==
    /\ (unit.op = "split" /\ unit.applied) =>
        LET n == Len(unit.series)
            t == Len(unit.train)
        IN  /\ 5 * t <= 4 * n /\ 4 * n < 5 * (t + 1)
            /\ t + Len(unit.val) = n
            /\ \A i \in 1..t : unit.train[i] = unit.series[i]
            /\ \A i \in 1..Len(unit.val) : unit.val[i] = unit.series[t + i]
            /\ ~unit.leak
    /\ (unit.op = "dataLeakOccured" /\ unit.applied) =>
        (unit.leak <=> (unit.shape[1] # unit.shape[2] + unit.shape[3]))

\* a series of 0.8*n not whole has been split into two parts
C2_Witness ==
    /\ unit.op = "split" /\ unit.applied
    /\ Len(unit.series) = 11
    /\ Len(unit.train) = 8
    /\ Len(unit.val) = 3

\* C3: the parameters the forecasting loop and the historical fit predict
\* with are those of the checkpoint the Epoch Selector chose.
C3_ForecastUsesSelected ==
    \A r \in Invs : pc[r] \in {"forecast", "store"} => predictor[r] = optimal_model[r]

\* four times the blended RMSE of epoch i of the history given to the selector
BlendedTimes4(i) == Sqrt(unit.tl[i]) + 3 * Sqrt(unit.vl[i])

\* C4: the epoch chosen has the smallest blended RMSE
\* 0.25*sqrt(train_loss) + 0.75*sqrt(val_loss), hence the largest score, and
\* is the lowest epoch that has it.
C4_SelectsGlobalBest ==
    (unit.op = "select" /\ unit.applied) =>
        \E k \in 1..Len(unit.tl) :
            /\ unit.optimal = (IF k < 10 THEN "0" ELSE "") \o ToString(k)
            /\ \A j \in 1..Len(unit.tl) : BlendedTimes4(k) <= BlendedTimes4(j)
            /\ \A j \in 1..(k - 1) : BlendedTimes4(k) < BlendedTimes4(j)

\* the second of three epochs was chosen, the third ties with it
C4_Witness ==
    /\ unit.op = "select" /\ unit.applied
    /\ Len(unit.tl) = 3
    /\ unit.optimal = "02"
    /\ BlendedTimes4(3) = BlendedTimes4(2)
    /\ unit.tl[3] # unit.tl[2]

\* C5: during the forecasting loop the window fed to the model at step t is
\* the last W elements of the initial last window followed by the
\* predictions 0 .. t-1, and the loop ends with exactly 20 values.
C5_RollingWindow ==
    \A r \in Invs :
        /\ pc[r] = "forecast" =>
            LET t == Len(forecast[r])
                fed == last_window[r] \o forecast[r]
            IN  /\ t <= 20
                /\ Len(current_window[r]) = Len(last_window[r])
                /\ \A j \in 1..Len(last_window[r]) : current_window[r][j] = fed[t + j]
        /\ pc[r] = "store" => Len(forecast[r]) = 20

\* the loop has run to its end: the window holds predictions only
C5_Witness ==
    \E r \in Invs :
        /\ pc[r] = "forecast"
        /\ Len(forecast[r]) = 20
        /\ current_window[r] = forecast[r]
        /\ current_window[r] # last_window[r]

\* C6: an invocation whose series has fewer than 125 observations never
\* enters perform_prediction (no purge, no epoch, no checkpoint of its own)
\* and its request does not become COMPLETED.
C6_ShortHistoryFailsFast ==
    [][\A r \in Invs :
        (closes[r] # << >> /\ Len(closes[r]) < 125) =>
            /\ pc'[r] \in {"check", "except", "returned", "raised"}
            /\ table'[request_id[r]].status # "COMPLETED"
            /\ training_loss_list'[r] = << >>
            /\ \A f \in files' : f.params.run # r]_vars

\* the series of 50 observations has been refused
C6_Witness ==
    \E r \in Invs :
        /\ pc[r] = "except"
        /\ Len(closes[r]) = 50
        /\ table[request_id[r]].status = "PROCESSING"

\* C7: from the purge to the enumeration and load of the checkpoints, every
\* file in the directory was written by the current run.
C7_NoStaleCheckpoint ==
    \A r \in Invs :
        pc[r] \in {"split", "fit", "select"} => \A f \in files : f.params.run = r

\* a second run is about to enumerate its 15 checkpoints in the directory in
\* which a completed first run had left its own
C7_Witness ==
    \E r \in Invs, q \in Requests :
        /\ q # request_id[r]
        /\ table[q].status = "COMPLETED"
        /\ pc[r] = "select"
        /\ Cardinality(files) = 15

C9_CurrentPriceIsLastClose ==
    \A r \in Invs :
        pc[r] = "store" =>
            LET last == closes[r][Len(closes[r])]
            IN  /\ response_data[r].current_price = (last + 5) \div 10
                /\ response_data[r].predicted_change_20d =
                        FormatChange(forecast[r][Len(forecast[r])], last)

\* C10: a checkpoint that a run has written and not yet enumerated and
\* loaded is neither deleted nor overwritten by a step of another run.
C10_CheckpointsNotShared ==
    [][\A f \in files : pc[f.params.run] \in {"fit", "select"} => f \in files']_vars

\* C11: no report with a MAPE that is not finite is returned by
\* get_forecast_data or stored as the result of a COMPLETED request: a
\* historical actual value of 0 makes the computation fail instead.
C11_NoNonFiniteMape ==
    /\ \A r \in Invs : pc[r] = "store" => response_data[r].mape.finite
    /\ \A q \in DOMAIN table :
        table[q].status = "COMPLETED" => table[q].result.mape.finite

\* C12: for every epoch k in 1..15 the checkpoint name the Epoch Selector
\* builds (k zero-padded to two digits) is the name under which the Trainer
\* wrote the checkpoint at the end of epoch k: the file exists, it is the only
\* one of that name and it holds the parameters of epoch k.
C12_LoadNameIsWrittenName ==
    (unit.op = "load_model" /\ unit.applied) =>
        LET k == unit.epoch
            name == "/tmp/saved_models/model_epoch_"
                        \o (IF k < 10 THEN "0" ELSE "") \o ToString(k) \o ".keras"
        IN  /\ unit.optimal = (IF k < 10 THEN "0" ELSE "") \o ToString(k)
            /\ Cardinality({f \in unit.written : f.name = name}) = 1
            /\ \A f \in unit.written : f.name = name => f.params.epoch = k
            /\ unit.loaded.epoch = k

\* the checkpoint of an epoch below 10 has been loaded among 15
C12_Witness ==
    /\ unit.op = "load_model" /\ unit.applied
    /\ unit.epoch = 7
    /\ Cardinality(unit.written) = 15
    /\ unit.loaded.epoch = 7

\* the scaler of invocation r holds the minimum and the range of the whole
\* series of closes
FitOnEntireSeries(r) ==
    LET n == Len(closes[r])
    IN  /\ \A i \in 1..n : scaler[r].data_min <= closes[r][i]
        /\ \E i \in 1..n : scaler[r].data_min = closes[r][i]
        /\ \A i \in 1..n : closes[r][i] <= scaler[r].data_min + scaler[r].data_range
        /\ \E i \in 1..n : closes[r][i] = scaler[r].data_min + scaler[r].data_range
        /\ \A i \in 1..n : prices_df[r][i] = closes[r][i] - scaler[r].data_min

\* every inverse transformation made so far in invocation r used the minimum
\* and range of its scaler: the targets are the closes again, the fitted
\* predictions and the forecast are the scaled predictions plus the minimum
InversesUseTheFit(r) ==
    LET n == Len(closes[r])
        t == (4 * n) \div 5
        m == predictor[r]
    IN  /\ pc[r] \in {"predict", "forecast", "store"} =>
            /\ \A i \in 1..Len(training_target[r]) :
                    training_target[r][i] = closes[r][i + 20]
            /\ \A i \in 1..Len(val_target[r]) :
                    val_target[r][i] = closes[r][t + i + 20]
        /\ pc[r] \in {"forecast", "store"} =>
            /\ \A i \in 1..Len(training_prediction[r]) :
                    training_prediction[r][i] =
                        Predict(m, Slice(prices_df[r], i - 1, i + 19)) + scaler[r].data_min
            /\ \A i \in 1..Len(val_prediction[r]) :
                    val_prediction[r][i] =
                        Predict(m, Slice(prices_df[r], t + i - 1, t + i + 19)) + scaler[r].data_min
        /\ pc[r] = "store" =>
            \A j \in 1..Len(forecast[r]) :
                forecast[r][j] = current_window[r][j] + scaler[r].data_min

\* C13: within one run the min-max transform is fit once, on the entire
\* series and before the split; it is not fit again before the run ends, and
\* every inverse transformation of the run (training targets, validation
\* targets, fitted predictions, forecast) uses that fit.
C13_ScalerFitOnce ==
    [][\A r \in Invs :
        /\ scaler'[r] # scaler[r] => (pc[r] = "retrieve" \/ pc'[r] \in {"returned", "raised"})
        /\ pc'[r] \in {"check", "purge", "split", "fit", "select", "predict", "forecast", "store"}
                => FitOnEntireSeries(r)'
        /\ InversesUseTheFit(r)']_vars

\* a report has been built on a falling series, whose minimum lies in the
\* validation partition
C13_Witness ==
    \E r \in Invs :
        /\ pc[r] = "store"
        /\ scaler[r].data_min = closes[r][Len(closes[r])]
        /\ scaler[r].data_min > 0
        /\ Len(forecast[r]) = 20
        /\ Len(val_prediction[r]) >= 1

\* C14: for a run on n closes with window 20 and horizon 20, the historical
\* actual series is the training targets followed by the validation targets
\* and is as long as the historical fit (training predictions followed by
\* validation predictions); the combined forecast series is the historical
\* fit followed by the 20 forecast values, so its last element is the final
\* forecast step and total_days = historical_days + forecast_days.
C14_ReportSeries ==
    \A r \in Invs :
        pc[r] = "store" =>
            LET fd == get_forecast_data(
                        [training_target |-> training_target[r],
                         val_target |-> val_target[r],
                         training_prediction |-> training_prediction[r],
                         val_prediction |-> val_prediction[r],
                         forecast |-> forecast[r]])
                nt == Len(training_target[r])
                nv == Len(val_target[r])
                rd == response_data[r]
            IN  /\ Len(fd.history) = nt + nv
                /\ \A i \in 1..nt : fd.history[i] = training_target[r][i]
                /\ \A i \in 1..nv : fd.history[nt + i] = val_target[r][i]
                /\ Len(fd.predicted_history) = Len(fd.history)
                /\ \A i \in 1..nt : fd.predicted_history[i] = training_prediction[r][i]
                /\ \A i \in 1..nv : fd.predicted_history[nt + i] = val_prediction[r][i]
                /\ Len(fd.model_forecast) = nt + nv + 20
                /\ \A i \in 1..(nt + nv) : fd.model_forecast[i] = fd.predicted_history[i]
                /\ \A j \in 1..20 : fd.model_forecast[nt + nv + j] = forecast[r][j]
                /\ rd.historical_days = nt + nv
                /\ rd.historical_days = Len(closes[r]) - 42
                /\ rd.forecast_days = Len(forecast[r])
                /\ rd.total_days = rd.historical_days + rd.forecast_days
                /\ rd.predicted_price_20d = (forecast[r][20] + 5) \div 10

\* a report on 126 closes: 104 historical days and 20 forecast days, the
\* final forecast step differs from the last fitted value
C14_Witness ==
    \E r \in Invs :
        /\ pc[r] = "store"
        /\ Len(closes[r]) = 126
        /\ response_data[r].historical_days = 84
        /\ response_data[r].total_days = 104
        /\ forecast[r][20] # val_prediction[r][Len(val_prediction[r])]

\* C15: when a step of process_prediction raises after the request was
\* accepted, the stored status becomes FAILED, so a GET /status after the
\* invocation has ended reports COMPLETED or FAILED, FAILED if the handler
\* failed, and never PROCESSING.
C15_FailureIsRecorded ==
    \A r \in Invs :
        pc[r] \in {"returned", "raised"} =>
            LET answer == get_status(table, request_id[r])
            IN  /\ answer.code = 200
                /\ answer.status \in {"COMPLETED", "FAILED"}
                /\ pc[r] = "raised" => answer.status = "FAILED"

\* the place of a status in PENDING -> PROCESSING -> (COMPLETED or FAILED)
StatusRank(status) ==
    IF status = "NONE" THEN 0
    ELSE IF status = "PENDING" THEN 1
    ELSE IF status = "PROCESSING" THEN 2
    ELSE 3

\* C16: the stored status of a request only moves forward, PENDING ->
\* PROCESSING -> (COMPLETED or FAILED), and once it is COMPLETED or FAILED
\* the item never changes again, however often the async-invoke event of the
\* request is delivered.
C16_StatusMovesForward ==
    [][\A q \in Requests :
        /\ StatusRank(table[q].status) <= StatusRank(table'[q].status)
        /\ table[q].status \in {"COMPLETED", "FAILED"} => table'[q] = table[q]]_vars

\* the body has no non-empty ticker, start_date or end_date
LacksField(body) ==
    \/ body.json # "object"
    \/ body.ticker # "value"
    \/ body.start_date # "value"
    \/ body.end_date # "value"

\* C17: a POST /predict whose body lacks a non-empty ticker, start_date or
\* end_date is answered with 400 and writes no record and invokes nothing;
\* a 202 with a request id is returned only after a PENDING record of that
\* id was stored, and the record is stored before the invocation is issued.
C17_PostValidation ==
    [][/\ (post.pc = "idle" /\ post' # post /\ LacksField(post'.body)) =>
            /\ post'.code = 400
            /\ post'.pc = "idle"
            /\ table' = table
            /\ events' = events
       /\ (post.pc # "idle" /\ post'.code = 202) =>
            /\ post'.request_id \in Requests
            /\ table[post'.request_id].status # "NONE"
            /\ events[post'.request_id] # "none"
       /\ \A q \in Requests :
            (events[q] = "none" /\ events'[q] # "none") => table[q].status = "PENDING"]_vars

\* C18: a sentiment step that raises or yields no headline does not change
\* the outcome: the prediction fields of the report are those of the
\* forecast, the request ends COMPLETED with them, and the stored result has
\* no 'sentiment' entry.
C18_SentimentFailureIsHarmless ==
    [][\A r \in Invs :
        sentiment_data[r].outcome \in {"raises", "empty"} =>
            LET q == request_id[r]
                last == val_target[r][Len(val_target[r])]
            IN  /\ pc[r] = "store"
                /\ response_data[r].sentiment = "absent"
                /\ response_data[r].predicted_price_20d = (forecast[r][20] + 5) \div 10
                /\ response_data[r].current_price = (last + 5) \div 10
                /\ response_data[r].historical_days = Len(closes[r]) - 42
                /\ pc'[r] = "returned"
                /\ table'[q].status = "COMPLETED"
                /\ table'[q].result = response_data[r]]_vars

\* a request has been COMPLETED without a 'sentiment' entry after another
\* one was COMPLETED with the scores
C18_Witness ==
    \E p \in Requests, q \in Requests :
        /\ table[p].status = "COMPLETED"
        /\ table[p].result.sentiment = "scores"
        /\ table[q].status = "COMPLETED"
        /\ table[q].result.sentiment = "absent"
        /\ table[q].result.predicted_price_20d = table[p].result.predicted_price_20d

\* C19: a series of n >= 125 values that passed the minimum-history check
\* gives, with windows of 20 and the 80/20 split, floor(0.8*n) - 21 >= 1
\* training windows and n - floor(0.8*n) - 21 >= 1 validation windows, so
\* perform_prediction reshapes and trains on no empty window set.
C19_WindowsNotEmpty ==
    \A r \in Invs :
        LET n == Len(prices_df[r])
            t == (4 * n) \div 5
        IN  /\ pc[r] \in {"purge", "split"} =>
                /\ n >= 125
                /\ Len(slidingWindow(training_df(prices_df[r]), 20).WINDOW) = t - 21
                /\ Len(slidingWindow(val_df(prices_df[r]), 20).WINDOW) = n - t - 21
                /\ t - 21 >= 1
                /\ n - t - 21 >= 1
            /\ pc[r] \in {"fit", "select", "predict", "forecast", "store"} =>
                /\ Len(training_target[r]) = t - 21
                /\ Len(val_target[r]) = n - t - 21
                /\ Len(training_target[r]) >= 1
                /\ Len(val_target[r]) >= 1

\* the shortest accepted series is being trained on: 79 training windows
\* and 4 validation windows
C19_Witness ==
    \E r \in Invs :
        /\ pc[r] = "fit"
        /\ Len(closes[r]) = 125
        /\ Len(training_target[r]) = 79
        /\ Len(val_target[r]) = 4

====
